---- MODULE Spec2Model ----
(***************************************************************************)
(* The instance store of TT (src/src/store/instance.hook.ts): the record   *)
(* list, the selection, the last-created id, the sanitizer applied to the  *)
(* persisted blob and the rehydration merge.                               *)
(*                                                                         *)
(* Numbers are carried in hundredths (scale 1 is 100, rotation pi is 314). *)
(* A decoded JSON value is a record tagged by t; a store record            *)
(* (Instance3D) is a plain record of its ten fields.  A position is        *)
(* carried in cylindrical form <<radius, y, angle>> of the Cartesian       *)
(* [radius cos(angle), y, radius sin(angle)]; [0, y, 0] is <<0, y, 0>>.    *)
(***************************************************************************)
EXTENDS Integers, Sequences, FiniteSets, TLC

VARIABLES
  platform,        \* Platform.OS
  now,             \* Date.now()
  instances, selectedId, lastCreatedId,   \* the data fields of the store's state
  others,          \* the other fields of the state object, by key
  hydration,       \* "pending" until the persisted state has been merged
  op,              \* what happened last
  storageDisabled, storageDisabledWarned, \* the flags of safeStorage
  disabledWarnings,  \* how often the disabling warning was logged
  item,            \* what AsyncStorage holds under the store's key
  calls,           \* the AsyncStorage calls in flight
  lastCall,        \* how the last safeStorage call went, or how it stands
  session,         \* calls started and reloads so far, the state at the last reload
  rafIdRef,        \* rafIdRef.current of useRafInvalidate
  frames           \* animation frames requested and pending, invalidations done

storeVars == <<platform, now, instances, selectedId, lastCreatedId, others, hydration, op>>
storageVars == <<storageDisabled, storageDisabledWarned, disabledWarnings, item, calls,
                 lastCall, session>>
rafVars == <<rafIdRef, frames>>
vars == <<storeVars, storageVars, rafVars>>

(***************************************************************************)
(* Bounds of the model.                                                    *)
(***************************************************************************)
\* MAX_INSTANCES on iOS (14 in the source), scaled down.
MaxInstancesIOS == 2
\* MAX_INSTANCES elsewhere (26 in the source), scaled down.
MaxInstancesOther == 3
\* Longest persisted instances array the rehydration is tried on.
MaxBlobLen == 4
\* Last value of the millisecond clock.
MaxNow == 1

(***************************************************************************)
(* Decoded JSON values.                                                    *)
(***************************************************************************)
Undefined == [t |-> "undefined"]
Null == [t |-> "null"]
Bool(b) == [t |-> "boolean", v |-> b]
Num(n) == [t |-> "number", v |-> n, finite |-> TRUE]
Infinity == [t |-> "number", v |-> 0, finite |-> FALSE]
Str(s) == [t |-> "string", v |-> s]
Arr(a) == [t |-> "array", v |-> a]
Obj(f) == [t |-> "object", v |-> f]

\* typeof x
TypeOf(x) ==
  CASE x.t = "undefined" -> "undefined"
    [] x.t = "boolean" -> "boolean"
    [] x.t = "number" -> "number"
    [] x.t = "string" -> "string"
    [] OTHER -> "object"

\* Faulty variant of Truthy: the empty string counts as true.
Truthy_EmptyStringTrue(x) ==
  CASE x.t = "undefined" -> FALSE
    [] x.t = "null" -> FALSE
    [] x.t = "boolean" -> x.v
    [] x.t = "number" -> ~x.finite \/ x.v # 0
    [] OTHER -> TRUE

\* !!x
Truthy(x) ==
  CASE x.t = "undefined" -> FALSE
    [] x.t = "null" -> FALSE
    [] x.t = "boolean" -> x.v
    [] x.t = "number" -> ~x.finite \/ x.v # 0
    [] x.t = "string" -> x.v # ""
    [] OTHER -> TRUE

\* x.k for a non-nullish x: a missing property reads as undefined
Prop(x, k) ==
  IF x.t = "object" /\ k \in DOMAIN x.v THEN x.v[k] ELSE Undefined

\* Array.isArray(x)
IsArray(x) == x.t = "array"

PlatformOS == {"ios", "android"}

MAX_INSTANCES == IF platform = "ios" THEN MaxInstancesIOS ELSE MaxInstancesOther

\* SPAWN_SPACING: 1.25 on iOS, 1.6 elsewhere
SPAWN_SPACING == IF platform = "ios" THEN 125 ELSE 160
\* Math.PI * (3 - Math.sqrt(5)) = 2.39996..., in hundredths of a radian
GOLDEN_ANGLE_RADIANS == 240
CENTER_INSTANCE_ID == "center"

\* Faulty variant of isFiniteNumber: the finiteness test is dropped.
isFiniteNumber_AnyNumber(value) == TypeOf(value) = "number"

isFiniteNumber(value) == TypeOf(value) = "number" /\ value.finite

isVector3Tuple(value) ==
  /\ IsArray(value)
  /\ Len(value.v) = 3
  /\ \A i \in 1..3 : isFiniteNumber(value.v[i])

\* A checked Vector3Tuple as the store holds it.
Vec(value) == <<value.v[1].v, value.v[2].v, value.v[3].v>>

\* sanitizeInstance: an Instance3D, or Null for a rejected candidate.
sanitizeInstance(candidate, dateNow) ==
  IF ~Truthy(candidate) \/ TypeOf(candidate) # "object" THEN Null
  ELSE
    LET id == IF TypeOf(Prop(candidate, "id")) = "string"
                THEN Prop(candidate, "id") ELSE Null
        color == IF TypeOf(Prop(candidate, "color")) = "string"
                   THEN Prop(candidate, "color").v ELSE "#4C8DFF"
        ring == IF TypeOf(Prop(candidate, "ring")) = "boolean"
                  THEN Prop(candidate, "ring").v ELSE FALSE
        hasContinents == IF TypeOf(Prop(candidate, "hasContinents")) = "boolean"
                           THEN Prop(candidate, "hasContinents").v ELSE FALSE
        name == IF TypeOf(Prop(candidate, "name")) = "string"
                  THEN Prop(candidate, "name") ELSE Null
        scale == IF isFiniteNumber(Prop(candidate, "scale"))
                   THEN Prop(candidate, "scale").v ELSE 100
        position == IF isVector3Tuple(Prop(candidate, "position"))
                      THEN Vec(Prop(candidate, "position")) ELSE <<0, 0, 0>>
        rotation == IF isVector3Tuple(Prop(candidate, "rotation"))
                      THEN Vec(Prop(candidate, "rotation")) ELSE <<0, 0, 0>>
        createdAt == IF isFiniteNumber(Prop(candidate, "createdAt"))
                       THEN Prop(candidate, "createdAt").v ELSE dateNow
    IN IF ~Truthy(id) THEN Null
       ELSE IF ~Truthy(name) THEN Null
       ELSE [id |-> id.v, type |-> "planet", color |-> color, ring |-> ring,
             hasContinents |-> hasContinents, name |-> name.v, scale |-> scale,
             position |-> position, rotation |-> rotation, createdAt |-> createdAt]

\* Boolean(x) as filter(Boolean) applies it to sanitizeInstance's results:
\* an Instance3D is an object, hence truthy.
Boolean(x) == IF "t" \in DOMAIN x THEN Truthy(x) ELSE TRUE

\* value.map(sanitizeInstance)
MapSanitize(a, dateNow) == [i \in 1..Len(a) |-> sanitizeInstance(a[i], dateNow)]

sanitizeInstances(value, dateNow) ==
  IF ~IsArray(value) THEN <<>>
  ELSE SelectSeq(MapSanitize(value.v, dateNow), Boolean)

(***************************************************************************)
(* The generator.  rnd holds one Math.random() result in hundredths for    *)
(* each draw of one createRandomInstance / getSpiralSpawnPosition call.    *)
(***************************************************************************)
\* min + Math.random() * (max - min), all in hundredths
randomFloat(min, max, r) == min + (r * (max - min)) \div 100

PLANET_COLORS == <<"#3B82F6", "#F97316", "#10B981", "#F43F5E", "#A855F7", "#EAB308">>

CONTINENT_PROBABILITY == 45

\* Math.floor(min + Math.random() * (max - min + 1))
randomInt(min, max, r) == (min * 100 + r * (max - min + 1)) \div 100

\* String.fromCharCode(97 + k), k in 0..4
FromCharCode97 == <<"a", "b", "c", "d", "e">>

randomLetter(r) == FromCharCode97[randomInt(0, 4, r) + 1]

RECURSIVE padStart3(_)
\* s.padStart(3, '0')
padStart3(s) == IF Len(s) >= 3 THEN s ELSE padStart3("0" \o s)

createPlanetName(rnd) ==
  IF rnd.roll < 50 THEN "Kepler-" \o padStart3(ToString(randomInt(1, 999, rnd.num)))
  ELSE IF rnd.roll < 80 THEN "TRAPPIST-1" \o randomLetter(rnd.letter)
  ELSE IF rnd.roll < 93
    THEN "HD " \o ToString(randomInt(10000, 199999, rnd.num)) \o " " \o randomLetter(rnd.letter)
  ELSE "GJ " \o ToString(randomInt(100, 999, rnd.num)) \o " " \o randomLetter(rnd.letter)

randomPlanetColor(r) == PLANET_COLORS[(r * Len(PLANET_COLORS)) \div 100 + 1]

\* Math.random().toString(16).slice(2): the digits after "0."; a draw of
\* exactly 0 prints as "0" and leaves the empty string.
RandomHexDigits(r) == IF r = 0 THEN "" ELSE ToString(r)

createInstanceId(dateNow, r) == ToString(dateNow) \o "-" \o RandomHexDigits(r)

createRandomInstance(rnd, dateNow) ==
  [id |-> createInstanceId(dateNow, rnd.id),
   type |-> "planet",
   color |-> randomPlanetColor(rnd.color),
   ring |-> rnd.ring < 28,
   hasContinents |-> rnd.continents < CONTINENT_PROBABILITY,
   name |-> createPlanetName(rnd),
   scale |-> randomFloat(65, 125, rnd.scale),
   position |-> <<0, 0, 0>>,
   rotation |-> <<0, randomFloat(0, 314, rnd.rot), 0>>,
   createdAt |-> dateNow]

\* Math.sqrt of a whole number, in hundredths, rounded down
MathSqrt(n) ==
  CHOOSE k \in 0..(50 * (n + 1)) :
    k * k <= 10000 * n /\ (k + 1) * (k + 1) > 10000 * n

\* Faulty variant of SpiralRadius: the index wraps around before the root.
SpiralRadius_Wraps(instanceIndex) ==
  (SPAWN_SPACING * MathSqrt(instanceIndex % 4)) \div 100

\* radius = SPAWN_SPACING * Math.sqrt(instanceIndex), in hundredths
SpiralRadius(instanceIndex) ==
  (SPAWN_SPACING * MathSqrt(instanceIndex)) \div 100

\* angle = instanceIndex * GOLDEN_ANGLE_RADIANS, in hundredths of a radian
SpiralAngle(instanceIndex) == instanceIndex * GOLDEN_ANGLE_RADIANS

\* The slot in cylindrical form (see the module comment); y is drawn.
getSpiralSpawnPosition(instanceIndex, r) ==
  <<SpiralRadius(instanceIndex), randomFloat(-40, 120, r), SpiralAngle(instanceIndex)>>

\* The Math.random() results the model draws for one add: ids generated in
\* the same millisecond repeat the random digits, hence coincide.
RandomDraws ==
  { [id |-> 37, color |-> 50, ring |-> 10, continents |-> 60, roll |-> 85, num |-> 50,
     letter |-> 50, scale |-> 50, rot |-> 50, y |-> 25] }

(***************************************************************************)
(* The store.                                                              *)
(***************************************************************************)
\* The instances list the store is created with.
InitialInstances(dateNow) ==
  << [id |-> CENTER_INSTANCE_ID, type |-> "planet", color |-> "#3B82F6", ring |-> FALSE,
      hasContinents |-> TRUE, name |-> "Kepler-001", scale |-> 100,
      position |-> <<0, 0, 0>>, rotation |-> <<0, 0, 0>>, createdAt |-> dateNow] >>

\* a.slice(0, end)
Slice0(a, end) == SubSeq(a, 1, IF end < Len(a) THEN end ELSE Len(a))

\* The state object of the store (its data fields).
State == [instances |-> instances, selectedId |-> selectedId,
          lastCreatedId |-> lastCreatedId]

\* What happened last: the operation, its argument, and whether its updater
\* handed set() the state object itself (zustand then keeps the state as it is).
Op(name, arg, same) == [name |-> name, arg |-> arg, same |-> same]

\* A function-valued field of the state object.
Function(name) == [t |-> "function", v |-> name]

\* The operations create() puts in the state object next to the data fields.
InitialOthers ==
  [k \in {"addRandomInstance", "clear", "select"} |-> Function(k)]

\* The state object still holds a function under key k.
IsCallable(k) == k \in DOMAIN others /\ others[k].t = "function"

\* The store as create() leaves it.
InitStore ==
  /\ now = 0
  /\ instances = InitialInstances(now)
  /\ selectedId = Null
  /\ lastCreatedId = Null
  /\ others = InitialOthers
  /\ hydration = "pending"
  /\ op = Op("init", Null, FALSE)

\* No safeStorage call has been made.
NoCall == [kind |-> "none", outcome |-> "none", underlying |-> FALSE,
           settled |-> "none", result |-> Undefined]

\* The state a reload is remembered with.
NoReload == [valid |-> FALSE, instances |-> <<>>, selectedId |-> Null]

\* safeStorage and AsyncStorage left aside: flags as the module sets them,
\* nothing stored, nothing in flight.
StorageIdle ==
  /\ storageDisabled = FALSE
  /\ storageDisabledWarned = FALSE
  /\ disabledWarnings = 0
  /\ item = Undefined
  /\ calls = <<>>
  /\ lastCall = NoCall
  /\ session = [started |-> 0, reloads |-> 0, before |-> NoReload]

\* The camera controls left aside: no frame requested.
RafIdle ==
  /\ rafIdRef = Null
  /\ frames = [requested |-> 0, pending |-> {}, invalidated |-> 0, changes |-> 0]

Init ==
  /\ platform \in PlatformOS
  /\ InitStore
  /\ StorageIdle
  /\ RafIdle

\* Date.now() advances.
Tick ==
  /\ now < MaxNow
  /\ now' = now + 1
  /\ UNCHANGED <<platform, instances, selectedId, lastCreatedId, others, hydration, op>>

\* The record addRandomInstance creates and places.
NewInstance(currentInstances, rnd, dateNow) ==
  LET created == createRandomInstance(rnd, dateNow)
      instanceIndex == Len(currentInstances)
  IN [created EXCEPT !.position = getSpiralSpawnPosition(instanceIndex, rnd.y)]

\* Faulty variant of UpdatedInstances: the new record is appended, not prepended.
UpdatedInstances_Appends(currentInstances, newInstance) ==
  Slice0(currentInstances \o <<newInstance>>, MAX_INSTANCES)

\* The instances list addRandomInstance hands to set().
UpdatedInstances(currentInstances, newInstance) ==
  Slice0(<<newInstance>> \o currentInstances, MAX_INSTANCES)

addRandomInstance(rnd) ==
  LET currentInstances == instances
      newInstance == NewInstance(currentInstances, rnd, now)
  IN /\ IsCallable("addRandomInstance")
     /\ instances' = UpdatedInstances(currentInstances, newInstance)
     /\ lastCreatedId' = Str(newInstance.id)
     /\ op' = Op("add", Null, FALSE)
     /\ UNCHANGED <<platform, now, selectedId, others, hydration>>

\* Faulty variant of ClearState: the last-created id is left as it is.
ClearState_KeepsLastCreated(dateNow) ==
  [instances |-> InitialInstances(dateNow), selectedId |-> Null,
   lastCreatedId |-> lastCreatedId]

\* The object clear hands to set().
ClearState(dateNow) ==
  [instances |->
     << [id |-> CENTER_INSTANCE_ID, type |-> "planet", color |-> "#3B82F6", ring |-> FALSE,
         hasContinents |-> TRUE, name |-> "Kepler-001", scale |-> 100,
         position |-> <<0, 0, 0>>, rotation |-> <<0, 0, 0>>, createdAt |-> dateNow] >>,
   selectedId |-> Null,
   lastCreatedId |-> Null]

clear ==
  /\ IsCallable("clear")
  /\ instances' = ClearState(now).instances
  /\ selectedId' = ClearState(now).selectedId
  /\ lastCreatedId' = ClearState(now).lastCreatedId
  /\ op' = Op("clear", Null, FALSE)
  /\ UNCHANGED <<platform, now, others, hydration>>

\* Faulty variant of SelectUpdater: the equality test is dropped.
SelectUpdater_AlwaysPatches(state, id) ==
  [same |-> FALSE, next |-> [state EXCEPT !.selectedId = id]]

\* The updater of select: same = TRUE when it returns the state object itself.
SelectUpdater(state, id) ==
  IF state.selectedId = id THEN [same |-> TRUE, next |-> state]
  ELSE [same |-> FALSE, next |-> [state EXCEPT !.selectedId = id]]

select(id) ==
  LET u == SelectUpdater(State, id)
  IN /\ IsCallable("select")
     /\ instances' = u.next.instances
     /\ selectedId' = u.next.selectedId
     /\ lastCreatedId' = u.next.lastCreatedId
     /\ op' = Op("select", id, u.same)
     /\ UNCHANGED <<platform, now, others, hydration>>

\* The ids the scene passes to select (the id of a rendered record), and null.
SelectArgs == {Str(instances[i].id) : i \in 1..Len(instances)} \cup {Null}

(***************************************************************************)
(* Rehydration: the persist middleware reads the stored item once, at      *)
(* start-up and asynchronously, and hands the decoded state to merge.      *)
(***************************************************************************)
\* new Set(sanitizedInstances.map((instance) => instance.id))
ValidIds(sanitizedInstances) ==
  {sanitizedInstances[i].id : i \in 1..Len(sanitizedInstances)}

\* Faulty variant of MergeSelectedId: any persisted string is kept.
MergeSelectedId_AnyString(persisted, validIds) ==
  IF TypeOf(Prop(persisted, "selectedId")) = "string"
  THEN Prop(persisted, "selectedId") ELSE Null

MergeSelectedId(persisted, validIds) ==
  IF TypeOf(Prop(persisted, "selectedId")) = "string"
     /\ Prop(persisted, "selectedId").v \in validIds
  THEN Prop(persisted, "selectedId") ELSE Null

\* Faulty variant of merge: the last-created id survives rehydration.
merge_KeepsLastCreated(persistedState, currentState, dateNow) ==
  LET persisted == IF persistedState.t \in {"undefined", "null"}
                     THEN Obj(<<>>) ELSE persistedState
      sanitizedInstances == sanitizeInstances(Prop(persisted, "instances"), dateNow)
  IN [instances |-> IF Len(sanitizedInstances) # 0
                      THEN sanitizedInstances ELSE currentState.instances,
      selectedId |-> MergeSelectedId(persisted, ValidIds(sanitizedInstances)),
      lastCreatedId |-> currentState.lastCreatedId]

\* Faulty variant of merge: the sanitized list is taken even when it is empty.
merge_TakesEmptyList(persistedState, currentState, dateNow) ==
  LET persisted == IF persistedState.t \in {"undefined", "null"}
                     THEN Obj(<<>>) ELSE persistedState
      sanitizedInstances == sanitizeInstances(Prop(persisted, "instances"), dateNow)
  IN [instances |-> sanitizedInstances,
      selectedId |-> MergeSelectedId(persisted, ValidIds(sanitizedInstances)),
      lastCreatedId |-> Null]

merge(persistedState, currentState, dateNow) ==
  LET persisted == IF persistedState.t \in {"undefined", "null"}
                     THEN Obj(<<>>) ELSE persistedState
      sanitizedInstances == sanitizeInstances(Prop(persisted, "instances"), dateNow)
      validIds == ValidIds(sanitizedInstances)
      selected == MergeSelectedId(persisted, validIds)
  IN [instances |-> IF Len(sanitizedInstances) # 0
                      THEN sanitizedInstances ELSE currentState.instances,
      selectedId |-> selected,
      lastCreatedId |-> Null]

\* Records as a previous run may have stored them.
StoredCenter ==
  Obj([id |-> Str(CENTER_INSTANCE_ID), type |-> Str("planet"), color |-> Str("#3B82F6"),
       ring |-> Bool(FALSE), hasContinents |-> Bool(TRUE), name |-> Str("Kepler-001"),
       scale |-> Num(100), position |-> Arr(<<Num(0), Num(0), Num(0)>>),
       rotation |-> Arr(<<Num(0), Num(0), Num(0)>>), createdAt |-> Num(0)])

\* A record with usable id and name whose other fields are damaged.
StoredPlanet ==
  Obj([id |-> Str("p1"), name |-> Str("GJ 991 e"), color |-> Num(7),
       scale |-> Num(-50), position |-> Arr(<<Num(1), Num(2)>>)])

\* A record without a name.
StoredNameless == Obj([id |-> Str("p2"), scale |-> Num(100)])

\* A record whose name is the empty string.
StoredUnnamed == Obj([id |-> Str("p3"), name |-> Str("")])

\* The k-th of a run of well-formed records with distinct ids.
StoredNumbered(k) ==
  Obj([id |-> Str("s" \o ToString(k)), type |-> Str("planet"), color |-> Str("#F97316"),
       ring |-> Bool(TRUE), hasContinents |-> Bool(FALSE), name |-> Str("TRAPPIST-1b"),
       scale |-> Num(80), position |-> Arr(<<Num(k), Num(10), Num(k)>>),
       rotation |-> Arr(<<Num(0), Num(157), Num(0)>>), createdAt |-> Num(0)])

\* The stored instances arrays tried: the empty one, all-rejected ones, ones
\* that repeat an id, mixed ones, and runs of 1..MaxBlobLen distinct records.
StoredArrays ==
  { <<>>, <<StoredNameless, StoredUnnamed>>, <<Null, Str("x")>>, <<StoredPlanet>>,
    <<StoredCenter, StoredCenter>>, <<StoredPlanet, StoredNameless, StoredCenter>> }
  \cup { [i \in 1..k |-> StoredNumbered(i)] : k \in 1..MaxBlobLen }

StoredInstances == {Undefined, Str("oops")} \cup {Arr(a) : a \in StoredArrays}

StoredSelectedIds == {Undefined, Str(CENTER_INSTANCE_ID), Str("s1"), Str("p2")}

\* Stored objects with more keys than partialize writes: one names an
\* operation of the store, one names lastCreatedId and a key of its own.
StoredWithExtraKeys ==
  { Obj([instances |-> Arr(<<StoredCenter>>), selectedId |-> Null, clear |-> Null]),
    Obj([instances |-> Arr(<<StoredCenter>>), selectedId |-> Str(CENTER_INSTANCE_ID),
         lastCreatedId |-> Str(CENTER_INSTANCE_ID), theme |-> Str("dark")]) }

\* What the stored item decodes to: nothing stored, or an object.
PersistedStates ==
  {Undefined} \cup
  {Obj([instances |-> i, selectedId |-> s]) : i \in StoredInstances, s \in StoredSelectedIds}
  \cup StoredWithExtraKeys

\* The keys merge sets after the two spreads.
DataKeys == {"instances", "selectedId", "lastCreatedId"}

\* { ...currentState, ...persisted } on the fields that are not data fields:
\* a key of the persisted object replaces the field of the same name.
MergeOthers(persistedState, currentOthers) ==
  LET persisted == IF persistedState.t \in {"undefined", "null"}
                     THEN Obj(<<>>) ELSE persistedState
      spread == IF persisted.t = "object" THEN DOMAIN persisted.v \ DataKeys ELSE {}
  IN [k \in DOMAIN currentOthers \cup spread |->
        IF k \in spread THEN persisted.v[k] ELSE currentOthers[k]]

\* What the persist middleware writes of a state.
partialize(state) ==
  [instances |-> state.instances, selectedId |-> state.selectedId]

rehydrate(persistedState) ==
  LET merged == merge(persistedState, State, now)
  IN /\ hydration = "pending"
     /\ hydration' = "done"
     /\ instances' = merged.instances
     /\ selectedId' = merged.selectedId
     /\ lastCreatedId' = merged.lastCreatedId
     /\ others' = MergeOthers(persistedState, others)
     /\ op' = Op("rehydrate", persistedState, FALSE)
     /\ UNCHANGED <<platform, now>>

Next ==
  \/ Tick /\ UNCHANGED <<storageVars, rafVars>>
  \/ (\E rnd \in RandomDraws : addRandomInstance(rnd)) /\ UNCHANGED <<storageVars, rafVars>>
  \/ clear /\ UNCHANGED <<storageVars, rafVars>>
  \/ (\E id \in SelectArgs : select(id)) /\ UNCHANGED <<storageVars, rafVars>>
  \/ (\E persistedState \in PersistedStates : rehydrate(persistedState))
       /\ UNCHANGED <<storageVars, rafVars>>

Spec == Init /\ [][Next]_vars

(***************************************************************************)
(* The sanitizer on its own: a decoded value goes in (op.arg), the list     *)
(* sanitizeInstances returns for it comes out in instances.                *)
(***************************************************************************)
\* The sequences over S of length at most n.
SeqsUpTo(S, n) == UNION {[1..k -> S] : k \in 0..n}

\* Longest decoded array the sanitizer is tried on.
MaxDecodedLen == 2

\* Array elements: non-objects, arrays, and objects with fields missing,
\* empty or of the wrong type.
DecodedCandidates ==
  { Null, Bool(TRUE), Num(0), Num(5), Str(""), Str("center"), Arr(<<>>), Obj(<<>>),
    StoredCenter, StoredPlanet, StoredNameless, StoredUnnamed,
    Obj([id |-> Str(""), name |-> Str("Kepler-002")]),
    Obj([id |-> Num(3), name |-> Str("Kepler-003")]),
    Obj([id |-> Null, name |-> Null]),
    Obj([id |-> Str("q1"), name |-> Num(4)]),
    Obj([id |-> Str("q2"), name |-> Str("HD 10000 a"), color |-> Null, ring |-> Str("yes"),
         hasContinents |-> Num(1), scale |-> Infinity,
         position |-> Arr(<<Num(1), Infinity, Num(3)>>),
         rotation |-> Arr(<<Num(1), Str("2"), Num(3)>>), createdAt |-> Str("now")]),
    Obj([id |-> Str("q3"), name |-> Str("GJ 100 b"), scale |-> Str("1"),
         position |-> Str("0,0,0"), rotation |-> Arr(<<Num(0), Num(0), Num(0), Num(0)>>),
         createdAt |-> Infinity, extra |-> Num(1)]) }

DecodedValues ==
  {Undefined, Null, Num(5), Str("oops"), Bool(TRUE), StoredCenter,
   Obj([length |-> Num(1)])}
  \cup {Arr(a) : a \in SeqsUpTo(DecodedCandidates, MaxDecodedLen)}

InitSanitize ==
  /\ platform \in PlatformOS
  /\ now \in 0..MaxNow
  /\ instances = <<>>
  /\ selectedId = Null
  /\ lastCreatedId = Null
  /\ others = InitialOthers
  /\ hydration = "pending"
  /\ \E value \in DecodedValues : op = Op("decoded", value, FALSE)
  /\ StorageIdle
  /\ RafIdle

Sanitize ==
  /\ op.name = "decoded"
  /\ instances' = sanitizeInstances(op.arg, now)
  /\ op' = Op("sanitized", op.arg, FALSE)
  /\ UNCHANGED <<platform, now, selectedId, lastCreatedId, others, hydration>>
  /\ UNCHANGED <<storageVars, rafVars>>

NextSanitize == Sanitize

SpecSanitize == InitSanitize /\ [][NextSanitize]_vars

(***************************************************************************)
(* getSpiralSpawnPosition on its own: two indices are drawn and a record   *)
(* is placed at each.                                                      *)
(***************************************************************************)
\* Largest insertion index the placement is tried on.
MaxSpiralIndex == 12

InitSpiral ==
  /\ platform \in PlatformOS
  /\ now = 0
  /\ instances = <<>>
  /\ selectedId = Null
  /\ lastCreatedId = Null
  /\ others = InitialOthers
  /\ hydration = "pending"
  /\ \E i, j \in 0..MaxSpiralIndex : op = Op("indices", Arr(<<Num(i), Num(j)>>), FALSE)
  /\ StorageIdle
  /\ RafIdle

Spawn(rnd) ==
  /\ op.name = "indices"
  /\ instances' =
       [k \in 1..2 |->
          [createRandomInstance(rnd, now) EXCEPT
             !.position = getSpiralSpawnPosition(op.arg.v[k].v, rnd.y)]]
  /\ op' = Op("spawned", op.arg, FALSE)
  /\ UNCHANGED <<platform, now, selectedId, lastCreatedId, others, hydration>>
  /\ UNCHANGED <<storageVars, rafVars>>

NextSpiral == \E rnd \in RandomDraws : Spawn(rnd)

SpecSpiral == InitSpiral /\ [][NextSpiral]_vars

(***************************************************************************)
(* Persistence: the persist middleware writes partialize(state) through    *)
(* safeStorage after every set(), reads the item once per start and hands  *)
(* it to merge.  An AsyncStorage call is in flight from its start to the   *)
(* step that settles it; calls in flight settle in any order.              *)
(***************************************************************************)
\* Most AsyncStorage calls in flight at a time.
MaxInFlight == 2
\* Most reloads of the app in one behaviour.
MaxReloads == 1
\* Most safeStorage calls the app starts in one behaviour, the reads at start aside.
MaxStorageCalls == 2

\* JSON.parse(JSON.stringify(instance)) for a store record
EncodeInstance(instance) ==
  Obj([id |-> Str(instance.id), type |-> Str(instance.type),
       color |-> Str(instance.color), ring |-> Bool(instance.ring),
       hasContinents |-> Bool(instance.hasContinents), name |-> Str(instance.name),
       scale |-> Num(instance.scale),
       position |-> Arr([i \in 1..3 |-> Num(instance.position[i])]),
       rotation |-> Arr([i \in 1..3 |-> Num(instance.rotation[i])]),
       createdAt |-> Num(instance.createdAt)])

\* Faulty variant of EncodeState: the records are written without their order.
EncodeState_Reversed(partial) ==
  Obj([instances |->
         Arr([i \in 1..Len(partial.instances) |->
                EncodeInstance(partial.instances[Len(partial.instances) + 1 - i])]),
       selectedId |-> partial.selectedId])

\* What the stored text of a partialized state decodes to.
EncodeState(partial) ==
  Obj([instances |->
         Arr([i \in 1..Len(partial.instances) |-> EncodeInstance(partial.instances[i])]),
       selectedId |-> partial.selectedId])

\* The errors an AsyncStorage call fails with, as String(error).
StorageErrors == {"Error: Not a directory", "Error: database or disk is full"}

\* message.includes('Not a directory')
IncludesNotADirectory(message) == message = "Error: Not a directory"

\* Faulty variant of disableStorage: any failure disables the storage.
disableStorage_AnyError(error) ==
  IF storageDisabled
    THEN [storageDisabled |-> storageDisabled,
          storageDisabledWarned |-> storageDisabledWarned, warned |-> 0]
    ELSE [storageDisabled |-> TRUE, storageDisabledWarned |-> TRUE,
          warned |-> IF ~storageDisabledWarned THEN 1 ELSE 0]

\* disableStorage(error): the flags after the call, and how many warnings it logged.
disableStorage(error) ==
  IF storageDisabled
    THEN [storageDisabled |-> storageDisabled,
          storageDisabledWarned |-> storageDisabledWarned, warned |-> 0]
  ELSE IF ~IncludesNotADirectory(error)
    THEN [storageDisabled |-> storageDisabled,
          storageDisabledWarned |-> storageDisabledWarned, warned |-> 0]
  ELSE [storageDisabled |-> TRUE, storageDisabledWarned |-> TRUE,
        warned |-> IF ~storageDisabledWarned THEN 1 ELSE 0]

\* What a safeStorage call that never reached AsyncStorage returns.
Skipped(kind) ==
  [kind |-> kind, outcome |-> "skipped", underlying |-> FALSE, settled |-> "resolved",
   result |-> IF kind = "getItem" THEN Null ELSE Undefined]

\* Faulty variant of Caught: the error is thrown on to the caller.
Caught_Rethrows(kind, error) ==
  [kind |-> kind, outcome |-> error, underlying |-> TRUE, settled |-> "rejected",
   result |-> Undefined]

\* The catch block of a safeStorage function: the promise resolves, with null
\* for getItem.
Caught(kind, error) ==
  [kind |-> kind, outcome |-> error, underlying |-> TRUE, settled |-> "resolved",
   result |-> IF kind = "getItem" THEN Null ELSE Undefined]

\* The start of safeStorage.getItem / setItem / removeItem, up to its await.
StartCall(kind, value) ==
  /\ IF storageDisabled
       THEN /\ calls' = calls
            /\ lastCall' = Skipped(kind)
       ELSE /\ Len(calls) < MaxInFlight
            /\ calls' = Append(calls, [kind |-> kind, value |-> value])
            /\ lastCall' = [kind |-> kind, outcome |-> "started", underlying |-> TRUE,
                            settled |-> "pending", result |-> Undefined]
  /\ UNCHANGED <<storageDisabled, storageDisabledWarned, disabledWarnings, item>>

\* One more call started by the app, while the bound allows it.
CountCall ==
  /\ session.started < MaxStorageCalls
  /\ session' = [session EXCEPT !.started = @ + 1]

\* getItem has resolved and the middleware is about to merge its result: the
\* continuation runs before any other handler.
HydratePending ==
  hydration = "pending" /\ lastCall.kind = "getItem" /\ lastCall.settled = "resolved"

InitStorage ==
  /\ platform = "ios"
  /\ InitStore
  /\ storageDisabled = FALSE
  /\ storageDisabledWarned = FALSE
  /\ disabledWarnings = 0
  /\ item \in {Undefined,
               Obj([instances |-> Arr(<<StoredPlanet, StoredCenter>>),
                    selectedId |-> Str(CENTER_INSTANCE_ID)])}
  /\ calls = << [kind |-> "getItem", value |-> Undefined] >>
  /\ lastCall = [kind |-> "getItem", outcome |-> "started", underlying |-> TRUE,
                 settled |-> "pending", result |-> Undefined]
  /\ session = [started |-> 0, reloads |-> 0, before |-> NoReload]
  /\ RafIdle

\* set() of the middleware: the store's set(), then setItem of the new state.
PersistAdd(rnd) ==
  /\ ~HydratePending
  /\ addRandomInstance(rnd)
  /\ CountCall
  /\ StartCall("setItem", EncodeState(partialize(State')))
  /\ UNCHANGED rafVars

PersistClear ==
  /\ ~HydratePending
  /\ clear
  /\ CountCall
  /\ StartCall("setItem", EncodeState(partialize(State')))
  /\ UNCHANGED rafVars

PersistSelect(id) ==
  /\ ~HydratePending
  /\ select(id)
  /\ CountCall
  /\ StartCall("setItem", EncodeState(partialize(State')))
  /\ UNCHANGED rafVars

\* persist.clearStorage(): removeItem of the store's key.
ClearStorage ==
  /\ ~HydratePending
  /\ CountCall
  /\ StartCall("removeItem", Undefined)
  /\ op' = Op("clearStorage", Null, FALSE)
  /\ UNCHANGED <<platform, now, instances, selectedId, lastCreatedId, others, hydration>>
  /\ UNCHANGED rafVars

\* persist.rehydrate(): the item is read and merged again.
PersistRehydrate ==
  /\ ~HydratePending
  /\ hydration = "done"
  /\ hydration' = "pending"
  /\ CountCall
  /\ StartCall("getItem", Undefined)
  /\ op' = Op("persist.rehydrate", Null, FALSE)
  /\ UNCHANGED <<platform, now, instances, selectedId, lastCreatedId, others>>
  /\ UNCHANGED rafVars

\* The calls in flight but the one at place i.
Settled(i) ==
  [k \in 1..(Len(calls) - 1) |-> IF k < i THEN calls[k] ELSE calls[k + 1]]

\* Faulty variant of StoredAfter: a stored item is never overwritten.
StoredAfter_KeepsFirst(call, current) ==
  CASE call.kind = "setItem" -> IF current = Undefined THEN call.value ELSE current
    [] call.kind = "removeItem" -> Undefined
    [] OTHER -> current

\* The item after AsyncStorage has carried out the call.
StoredAfter(call, current) ==
  CASE call.kind = "setItem" -> call.value
    [] call.kind = "removeItem" -> Undefined
    [] OTHER -> current

\* The AsyncStorage call at place i of the calls in flight succeeds.
Succeed(i) ==
  LET call == calls[i]
  IN /\ ~HydratePending
     /\ calls' = Settled(i)
     /\ item' = StoredAfter(call, item)
     /\ lastCall' = [kind |-> call.kind, outcome |-> "ok", underlying |-> TRUE,
                     settled |-> "resolved",
                     result |-> IF call.kind # "getItem" THEN Undefined
                                ELSE IF item = Undefined THEN Null ELSE item]
     /\ UNCHANGED <<storageDisabled, storageDisabledWarned, disabledWarnings>>
     /\ UNCHANGED <<storeVars, session, rafVars>>

\* The AsyncStorage call at place i of the calls in flight fails with error.
Fail(i, error) ==
  LET call == calls[i]
      after == disableStorage(error)
  IN /\ ~HydratePending
     /\ calls' = Settled(i)
     /\ storageDisabled' = after.storageDisabled
     /\ storageDisabledWarned' = after.storageDisabledWarned
     /\ disabledWarnings' = disabledWarnings + after.warned
     /\ lastCall' = Caught(call.kind, error)
     /\ UNCHANGED item
     /\ UNCHANGED <<storeVars, session, rafVars>>

\* The middleware merges what getItem resolved to (null: nothing to merge
\* with) and writes the merged state.
Hydrate ==
  /\ HydratePending
  /\ rehydrate(IF lastCall.result = Null THEN Undefined ELSE lastCall.result)
  /\ StartCall("setItem", EncodeState(partialize(State')))
  /\ UNCHANGED <<session, rafVars>>

\* The app is restarted while no call is in flight: the module is evaluated
\* again, the item stays.
Reload ==
  /\ ~HydratePending
  /\ hydration = "done"
  /\ calls = <<>>
  /\ session.reloads < MaxReloads
  /\ session' = [session EXCEPT !.reloads = @ + 1,
                                !.before = [valid |-> TRUE, instances |-> instances,
                                            selectedId |-> selectedId]]
  /\ instances' = InitialInstances(now)
  /\ selectedId' = Null
  /\ lastCreatedId' = Null
  /\ others' = InitialOthers
  /\ hydration' = "pending"
  /\ op' = Op("reload", Null, FALSE)
  /\ storageDisabled' = FALSE
  /\ storageDisabledWarned' = FALSE
  /\ disabledWarnings' = 0
  /\ calls' = << [kind |-> "getItem", value |-> Undefined] >>
  /\ lastCall' = [kind |-> "getItem", outcome |-> "started", underlying |-> TRUE,
                  settled |-> "pending", result |-> Undefined]
  /\ UNCHANGED <<platform, now, item, rafVars>>

\* safeStorage under every call the middleware can make of it, on a store
\* whose list stays as it is.
NextStorage ==
  \/ PersistClear
  \/ \E id \in SelectArgs : PersistSelect(id)
  \/ ClearStorage
  \/ PersistRehydrate
  \/ \E i \in 1..Len(calls) : Succeed(i)
  \/ \E i \in 1..Len(calls) : \E error \in StorageErrors : Fail(i, error)
  \/ Hydrate

SpecStorage == InitStorage /\ [][NextStorage]_vars

\* The store and its stored item across mutations and reloads, on a storage
\* whose calls succeed.
NextPersist ==
  \/ \E rnd \in RandomDraws : PersistAdd(rnd)
  \/ PersistClear
  \/ \E id \in SelectArgs : PersistSelect(id)
  \/ \E i \in 1..Len(calls) : Succeed(i)
  \/ Hydrate
  \/ Reload

SpecPersist == InitStorage /\ [][NextPersist]_vars

(***************************************************************************)
(* useRafInvalidate (src/src/scene/Scene.tsx): the camera controls call    *)
(* the returned function on every change; frames.pending holds the ids of  *)
(* the animation-frame callbacks requested and not yet run.                *)
(***************************************************************************)
\* Most camera changes in one behaviour.
MaxCameraChanges == 8

InitRaf ==
  /\ platform \in PlatformOS
  /\ InitStore
  /\ StorageIdle
  /\ RafIdle

\* Faulty variant of HasPendingFrame: the test of the ref is dropped.
HasPendingFrame_Never(ref) == FALSE

\* rafIdRef.current != null
HasPendingFrame(ref) == ref # Null

\* The function useRafInvalidate returns, called as onChange of the controls.
onChange ==
  /\ frames.changes < MaxCameraChanges
  /\ IF HasPendingFrame(rafIdRef)
       THEN /\ rafIdRef' = rafIdRef
            /\ frames' = [frames EXCEPT !.changes = @ + 1]
       ELSE /\ rafIdRef' = Num(frames.requested + 1)
            /\ frames' = [frames EXCEPT !.changes = @ + 1,
                                        !.requested = @ + 1,
                                        !.pending = @ \cup {frames.requested + 1}]
  /\ UNCHANGED <<storeVars, storageVars>>

\* The callback handed to requestAnimationFrame under id runs.
AnimationFrame(id) ==
  /\ id \in frames.pending
  /\ rafIdRef' = Null
  /\ frames' = [frames EXCEPT !.pending = @ \ {id}, !.invalidated = @ + 1]
  /\ UNCHANGED <<storeVars, storageVars>>

NextRaf ==
  \/ onChange
  \/ \E id \in frames.pending : AnimationFrame(id)

SpecRaf == InitRaf /\ [][NextRaf]_vars

(***************************************************************************)
(* Steps, as the properties below recognise them.                          *)
(***************************************************************************)
AddStep == op'.name = "add" /\ now' = now
SelectStep == op'.name = "select" /\ now' = now
RehydrateStep == op'.name = "rehydrate" /\ hydration = "pending" /\ hydration' = "done"

Ids(list) == {list[i].id : i \in 1..Len(list)}

(***************************************************************************)
(* Properties.                                                             *)
(***************************************************************************)
\* C1: in every reachable state selectedId is null or the id of a record
\* of the instances list.
C1_SelectedIdReferencesRecord ==
  selectedId = Null \/ (selectedId.t = "string" /\ selectedId.v \in Ids(instances))

\* C2: in every reachable state the instances list holds at most
\* MAX_INSTANCES records.
C2_AtMostMaxInstances == Len(instances) <= MAX_INSTANCES

\* C3: an add-random step on a list L yields [new] ++ L cut to its first
\* MAX_INSTANCES elements: the new record (the one lastCreatedId names) is
\* first, the survivors are the leading records of L in their order, and at
\* Len(L) = MAX_INSTANCES exactly the last record of L is gone.
C3_AddPrependsAndEvictsOldest ==
  [][AddStep =>
       /\ Len(instances') = (IF Len(instances) + 1 < MAX_INSTANCES
                               THEN Len(instances) + 1 ELSE MAX_INSTANCES)
       /\ lastCreatedId' = Str(instances'[1].id)
       /\ \A i \in 2..Len(instances') : instances'[i] = instances[i - 1]
       /\ (Len(instances) = MAX_INSTANCES =>
             /\ Len(instances') = Len(instances)
             /\ \A i \in 1..(Len(instances) - 1) : instances'[i + 1] = instances[i])]_vars

\* Witness of C3: before rehydration an add has filled the list to the cap and
\* pushed the seed record out.
C3_Witness ==
  /\ op.name = "add"
  /\ hydration = "pending"
  /\ Len(instances) = MAX_INSTANCES
  /\ CENTER_INSTANCE_ID \notin Ids(instances)

\* C4: after clear the state is the baseline: one seed record with id
\* 'center', name 'Kepler-001', scale 1, position and rotation [0,0,0], no
\* selection, no last-created id; apart from createdAt the list is the one the
\* store was created with.
C4_ClearYieldsBaseline ==
  op.name = "clear" =>
    /\ Len(instances) = 1
    /\ instances[1].id = "center"
    /\ instances[1].name = "Kepler-001"
    /\ instances[1].scale = 100
    /\ instances[1].position = <<0, 0, 0>>
    /\ instances[1].rotation = <<0, 0, 0>>
    /\ selectedId = Null
    /\ lastCreatedId = Null
    /\ \E t \in 0..MaxNow : instances = InitialInstances(t)

\* Witness of C4: clear has run after records were added (the clock moved on).
C4_Witness == op.name = "clear" /\ instances[1].createdAt > 0 /\ hydration = "done"

\* C5: a select step whose argument equals the current selectedId (null
\* included) hands back the state object itself and changes nothing.
C5_SelectSameIsNoOp ==
  [][(SelectStep /\ selectedId = op'.arg) =>
       /\ op'.same
       /\ UNCHANGED <<instances, selectedId, lastCreatedId>>]_vars

\* Witness of C5: select(x) has run with x the id already selected.
C5_Witness ==
  op.name = "select" /\ op.same /\ op.arg # Null /\ selectedId = op.arg

(***************************************************************************)
(* What the specification expects of sanitization, stated field by field.  *)
(***************************************************************************)
HasString(c, k) == k \in DOMAIN c.v /\ c.v[k].t = "string"
HasBoolean(c, k) == k \in DOMAIN c.v /\ c.v[k].t = "boolean"
HasFinite(c, k) == k \in DOMAIN c.v /\ c.v[k].t = "number" /\ c.v[k].finite
HasVector(c, k) ==
  /\ k \in DOMAIN c.v
  /\ c.v[k].t = "array"
  /\ Len(c.v[k].v) = 3
  /\ \A i \in 1..3 : c.v[k].v[i].t = "number" /\ c.v[k].v[i].finite

\* An element that is an object with a non-empty string id and name.
WellFormed(c) ==
  /\ c.t = "object"
  /\ HasString(c, "id") /\ c.v.id.v # ""
  /\ HasString(c, "name") /\ c.v.name.v # ""

\* The record expected for a well-formed element.
Expected(c, dateNow) ==
  [id |-> c.v.id.v,
   type |-> "planet",
   color |-> IF HasString(c, "color") THEN c.v.color.v ELSE "#4C8DFF",
   ring |-> IF HasBoolean(c, "ring") THEN c.v.ring.v ELSE FALSE,
   hasContinents |-> IF HasBoolean(c, "hasContinents") THEN c.v.hasContinents.v ELSE FALSE,
   name |-> c.v.name.v,
   scale |-> IF HasFinite(c, "scale") THEN c.v.scale.v ELSE 100,
   position |-> IF HasVector(c, "position")
                  THEN [i \in 1..3 |-> c.v.position.v[i].v] ELSE <<0, 0, 0>>,
   rotation |-> IF HasVector(c, "rotation")
                  THEN [i \in 1..3 |-> c.v.rotation.v[i].v] ELSE <<0, 0, 0>>,
   createdAt |-> IF HasFinite(c, "createdAt") THEN c.v.createdAt.v ELSE dateNow]

\* The list expected for a decoded value.
ExpectedList(value, dateNow) ==
  IF value.t # "array" THEN <<>>
  ELSE LET kept == SelectSeq(value.v, WellFormed)
       IN [i \in 1..Len(kept) |-> Expected(kept[i], dateNow)]

\* The persisted fields of a decoded state (nothing stored: no fields).
PersistedField(persistedState, k) ==
  IF persistedState.t = "object" /\ k \in DOMAIN persistedState.v
  THEN persistedState.v[k] ELSE Undefined

\* C6: sanitizeInstances returns, for every decoded value, the well-formed
\* elements in their order with wrongly typed fields defaulted, and the empty
\* list for a non-array.
C6_SanitizeKeepsWellFormed ==
  op.name = "sanitized" => instances = ExpectedList(op.arg, now)

\* Witness of C6: an array mixing rejected elements with a damaged but
\* well-formed one has been sanitized to a partial list.
C6_Witness ==
  /\ op.name = "sanitized"
  /\ op.arg.t = "array"
  /\ Len(op.arg.v) = 2
  /\ Len(instances) = 1
  /\ instances[1].id = "q2"
  /\ instances[1].scale = 100

\* C7: after rehydration selectedId is the persisted selectedId when that is
\* a string naming a record that survived sanitization, and null otherwise.
C7_RehydratedSelection ==
  op.name = "rehydrate" =>
    LET persistedSelected == PersistedField(op.arg, "selectedId")
        survivors == Ids(ExpectedList(PersistedField(op.arg, "instances"), now))
    IN IF persistedSelected.t = "string" /\ persistedSelected.v \in survivors
         THEN selectedId = persistedSelected
         ELSE selectedId = Null

\* Witness of C7: the persisted selection named a record that sanitization
\* dropped, and rehydration left no selection.
C7_Witness ==
  /\ op.name = "rehydrate"
  /\ PersistedField(op.arg, "selectedId") = Str("p2")
  /\ PersistedField(op.arg, "instances") = Arr(<<StoredPlanet, StoredNameless, StoredCenter>>)
  /\ Len(instances) = 2
  /\ selectedId = Null

\* C8: a rehydration step sets instances to the sanitized persisted list when
\* that is non-empty and leaves the in-memory list as it is otherwise,
\* whatever was done to the list before the read completed.
C8_RehydratedInstances ==
  [][RehydrateStep =>
       LET expected == ExpectedList(PersistedField(op'.arg, "instances"), now)
       IN IF Len(expected) > 0 THEN instances' = expected
          ELSE instances' = instances]_vars

\* Witness of C8: records were added before the read completed, the persisted
\* array held no usable record, and the in-memory list is still there.
C8_Witness ==
  /\ op.name = "rehydrate"
  /\ PersistedField(op.arg, "instances") = Arr(<<StoredNameless, StoredUnnamed>>)
  /\ Len(instances) >= 2
  /\ CENTER_INSTANCE_ID \in Ids(instances)

\* C9: every record of the instances list has a non-empty id and a non-empty
\* name.
C9_RecordsHaveIdAndName ==
  \A i \in 1..Len(instances) : instances[i].id # "" /\ instances[i].name # ""

\* Witness of C9: rehydration from an array holding records without a name
\* or with an empty name.
C9_Witness ==
  /\ op.name = "rehydrate"
  /\ PersistedField(op.arg, "instances") = Arr(<<StoredPlanet, StoredNameless, StoredCenter>>)
  /\ Ids(instances) = {"p1", CENTER_INSTANCE_ID}

\* C10: the records of the instances list have pairwise distinct ids.
C10_DistinctIds ==
  \A i, j \in 1..Len(instances) : instances[i].id = instances[j].id => i = j

\* C11: every record of the instances list has a scale that is a positive
\* finite number.
C11_ScalePositive ==
  \A i \in 1..Len(instances) : instances[i].scale > 0

\* C20: lastCreatedId is null or the id of the first record of the list;
\* a select step leaves it and the list as they are, and clear and
\* rehydration leave it null.
C20_LastCreatedIsFirst ==
  /\ [](lastCreatedId = Null \/ lastCreatedId = Str(instances[1].id))
  /\ [](op.name \in {"clear", "rehydrate"} => lastCreatedId = Null)
  /\ [][SelectStep => UNCHANGED <<instances, lastCreatedId>>]_vars
  /\ [][AddStep => lastCreatedId' = Str(instances'[1].id)]_vars

\* Witness of C20: a record was added and then selected, and lastCreatedId
\* still names the first record.
C20_Witness ==
  /\ op.name = "select"
  /\ lastCreatedId # Null
  /\ selectedId = lastCreatedId
  /\ Len(instances) >= 2

\* C16: the horizontal spawn radius is non-decreasing in the insertion
\* index (for i <= j the record placed at i is no farther out than the one
\* placed at j), and the radius at index 0 is 0.
C16_RadiusNonDecreasing ==
  op.name = "spawned" =>
    LET i == op.arg.v[1].v
        j == op.arg.v[2].v
    IN /\ i <= j => instances[1].position[1] <= instances[2].position[1]
       /\ i = 0 => instances[1].position[1] = 0

\* Witness of C16: a record placed at index 0 and one placed farther out.
C16_Witness ==
  /\ op.name = "spawned"
  /\ op.arg.v[1].v = 0
  /\ op.arg.v[2].v = MaxSpiralIndex
  /\ instances[1].position[1] = 0
  /\ instances[2].position[1] > SPAWN_SPACING

\* The record was created by addRandomInstance: its id is a generated one.
IsGenerated(record) ==
  \E t \in 0..MaxNow : \E rnd \in RandomDraws : record.id = createInstanceId(t, rnd.id)

\* C17: any two records created by add-random that are in the store at the
\* same time were placed at different insertion indices, hence in different
\* spiral slots (radius and angle).
C17_DistinctSlots ==
  \A i, j \in 1..Len(instances) :
    (i < j /\ IsGenerated(instances[i]) /\ IsGenerated(instances[j]))
      => <<instances[i].position[1], instances[i].position[3]>>
           # <<instances[j].position[1], instances[j].position[3]>>

\* C18: rehydration changes only instances, selectedId and lastCreatedId:
\* after it lastCreatedId is null and every other field of the state object
\* is the one the store had before, whatever keys the persisted object has;
\* and what is written of a state has exactly the fields instances and
\* selectedId.
C18_RehydrationFrame ==
  /\ [][RehydrateStep => (lastCreatedId' = Null /\ others' = others)]_vars
  /\ [](DOMAIN partialize(State) = {"instances", "selectedId"})

\* An AsyncStorage call in flight fails in this step.
FailStep == Len(calls') < Len(calls) /\ lastCall'.outcome \in StorageErrors

C13_DisabledForGood ==
  /\ [][(storageDisabled' # storageDisabled)
          <=> (FailStep /\ ~storageDisabled /\ IncludesNotADirectory(lastCall'.outcome))]_vars
  /\ [][storageDisabled => storageDisabled']_vars
  /\ [][storageDisabled =>
          /\ Len(calls') <= Len(calls)
          /\ (Len(calls') = Len(calls) /\ lastCall' # lastCall) => ~lastCall'.underlying]_vars
  /\ [](disabledWarnings <= 1)

\* Witness of C13: the storage is disabled, the warning has been logged
\* once, no call is in flight, and a getItem made after the disabling has
\* returned without a read.
C13_Witness ==
  /\ storageDisabled
  /\ disabledWarnings = 1
  /\ lastCall = Skipped("getItem")
  /\ calls = <<>>
  /\ hydration = "pending"

\* C14: when the app is reloaded in a state whose partialized form is what
\* the storage holds, and the store is rehydrated from that item, the
\* instances list is again the list of before the reload, record for record
\* and in the same order.
C14_PlanetsSurviveReload ==
  [][(RehydrateStep /\ session.before.valid
        /\ lastCall.result = EncodeState(partialize(session.before)))
       => instances' = session.before.instances]_vars

\* Witness of C14: a list with an added record has come back from the
\* storage after a reload.
C14_Witness ==
  /\ op.name = "rehydrate"
  /\ session.before.valid
  /\ op.arg = EncodeState(partialize(session.before))
  /\ Len(instances) >= 2
  /\ IsGenerated(instances[1])
  /\ instances = session.before.instances

\* C15: writes are not ordered: whichever setItem in flight completes, the
\* storage then holds the value of that call, whether or not it was the
\* last one started.
C15_LastCompletedWriteWins ==
  [][(Len(calls') < Len(calls) /\ lastCall'.kind = "setItem" /\ lastCall'.outcome = "ok")
       => \E i \in 1..Len(calls) :
            /\ calls[i].kind = "setItem"
            /\ calls' = Settled(i)
            /\ item' = calls[i].value]_vars

\* Witness of C15: every write has completed, and the storage holds the
\* state of before the last select, not the state of the store.
C15_Witness ==
  /\ calls = <<>>
  /\ hydration = "done"
  /\ lastCall.kind = "setItem" /\ lastCall.outcome = "ok"
  /\ op.name = "select"
  /\ selectedId = Str(CENTER_INSTANCE_ID)
  /\ item.t = "object"
  /\ item.v.selectedId = Null
  /\ item # EncodeState(partialize(State))
  /\ item.v.instances = EncodeState(partialize(State)).v.instances

\* C19: at any time at most one animation-frame callback of
\* useRafInvalidate is pending; an onChange call made while one is pending
\* requests none; a callback that runs calls invalidate exactly once and
\* clears the ref, and an onChange call made with no callback pending
\* requests one.
C19_OneInvalidationPerFrame ==
  /\ [](Cardinality(frames.pending) <= 1)
  /\ [][(frames'.changes # frames.changes /\ frames.pending # {})
          => (frames'.pending = frames.pending /\ frames'.requested = frames.requested)]_vars
  /\ [][(frames.pending \ frames'.pending) # {}
          => (frames'.invalidated = frames.invalidated + 1 /\ rafIdRef' = Null)]_vars
  /\ [][(frames'.changes # frames.changes /\ frames.pending = {})
          => Cardinality(frames'.pending) = 1]_vars
  /\ [](frames.invalidated + Cardinality(frames.pending) = frames.requested)

\* Witness of C19: changes were dropped while a callback was pending, two
\* callbacks have run, and a later change has requested a third.
C19_Witness ==
  /\ frames.invalidated = 2
  /\ frames.requested = 3
  /\ frames.changes > frames.requested
  /\ frames.pending = {3}
  /\ rafIdRef = Num(3)

====
